---- MODULE Spec2Model ----
(***************************************************************************)
(* Reader navigation, pagination and gesture classification of the light   *)
(* novel reader (PagedReader.tsx, ContinuousReader.tsx, useReaderCore).    *)
(*                                                                         *)
(* Time is counted in ticks of 50 ms: the pagination measure and the       *)
(* initial-navigation timers take 1 tick, the goToSection timer and the    *)
(* scroll debounce 2 ticks, the wheel cooldown 4 ticks.  Timers that are   *)
(* due at the same tick fire in the order they were created.  A handler    *)
(* together with the React render and the effects it causes is one step.   *)
(***************************************************************************)
EXTENDS Integers, Sequences, FiniteSets, TLC

\* ------------------------------------------------------------------ bounds
NumChapters == 2
MaxInitialPage == 1
MaxMoves == 2
\* pending goToSection timers (they are never cleared)
MaxSectionTimers == 1
\* inputs and environment changes per run
MaxInputs == 2
MaxSaves == 3
MaxLen == 4
MaxBoundary == 3

\* ------------------------------------------------------- program constants
COLUMN_GAP == 40
DefaultPageMargin == 24
SinglePageEpsilon == 5
ResizeTolerance == 5
WheelThreshold == 20
DRAG_THRESHOLD == 10
CalcDelay == 1
InitialNavDelay == 1
SectionDelay == 2
ScrollDebounce == 2
WheelCooldown == 4
\* the value of scrollSize / 0 in the page calculation
Infinity == 1000000

\* --------------------------------------------------------- input domains
Htmls == {"a", "b"}
\* the books: long and short chapters alternate
Books == {[i \in 0..(NumChapters - 1) |-> IF (i + k) % 2 = 0 THEN "a" ELSE "b"] : k \in 0..1}
Widths == {1000, 2000}
MountWidths == {1000}
Heights == {1000}
Directions == {"horizontal", "vertical-rtl"}
FontSizes == {18, 20}
WheelDeltas == {-30, 10, 30}
\* forward deltas at or below WheelThreshold, any two of which sum above it
SmallWheelDeltas == {15, 20}
Keys == {"next", "prev", "start", "end", "other"}
KeyTargets == {"BODY", "INPUT", "TEXTAREA", "EDITABLE_DIV"}
EditableTargets == {"INPUT", "TEXTAREA", "EDITABLE_DIV"}
\* indices passed to goToPage and goToSection directly
PageRequests == {-1, 0, 2, 4, 5}
SectionRequests == {-1, 0, NumChapters - 1, NumChapters}
\* the chapterIndex of a stored progress record or of a table-of-contents
\* entry; NumChapters is out of range for the loaded book
StoredChapterIndexes == {0, NumChapters - 1, NumChapters}
\* layouts and flow extents of the page calculation on its own
\* the sentences a stored position can name; "gone" occurs in no chapter
SentenceTexts == {"s0", "s1", "s2", "gone"}
BookIds == {"", "book"}
SavedTexts == {"", " ", " s0", "s0", "s1"}
SavedPages == {0, 2}
\* characters of a block's text: an ASCII letter, a kana (3 bytes in UTF-8),
\* a space, and the terminators "." and the ideographic full stop
Chars == {"a", "k", " ", ".", "o"}
Texts == UNION {[1..n -> Chars] : n \in 1..MaxLen}
Versions == {"sentence", "block"}
\* the characters a lookup is started on, and what lookupYomitan resolves to
LookupChars == {"c1", "c2"}
LookupResponses == {"results", "loading"}
\* keys of a Storage and the values setItem is called with: a string, which
\* is stored as it is, a number, which is stored as its JSON text, and
\* undefined, which removes the item
StorageKeys == {"k1", "k2"}
\* the pageIndex argument of onRelocated: ContinuousReader passes undefined
UndefinedPage == -1
RelocPages == {UndefinedPage, 0, 1}
Undefined == [type |-> "undefined", text |-> "", num |-> 0]
SetValues == {[type |-> "string", text |-> "a", num |-> 0],
              [type |-> "number", text |-> "", num |-> 7],
              Undefined}
\* gesture input
Readers == {"PagedReader", "ContinuousReader", "useReaderCore"}
InputKinds == {"mouse", "touch"}
\* what the hit test finds at the release point: a non-whitespace character,
\* the margin around one (the nearest caret position is whitespace), no text
Hits == {"char", "near", "none"}
\* the element at the release point: plain content, an element of the click
\* handlers' selector, an input (tryLookup's selector only), the dictionary
\* popup (handleContentClick's selector only)
Targets == {"content", "link", "input", "popup"}
\* the result of handleTouchEnd
SwipeResults == {"none", "next", "prev"}
StartPoints == {[x |-> 100, y |-> 100], [x |-> 200, y |-> 150]}
Offsets == {-11, 0, 3, 8, 10, 11}
CalcWidths == {100, 200, 1000, 1048}
CalcHeights == {40, 1000}
CalcMargins == {0, 40, 70}
CalcExtents(viewport) == {viewport, viewport + SinglePageEpsilon,
                          viewport + SinglePageEpsilon + 1, 2400, 2500, 3976}
\* flow extents at and one pixel around the first page boundaries of a stride
BoundaryExtents(stride) ==
    {k * stride + d : k \in 1..MaxBoundary, d \in {-1, 0, 1}}

VARIABLES
    chapters,               \* props.chapters: chapter index -> html
    initialChapter,         \* props.initialChapter
    initialPage,            \* props.initialPage
    dimensions,             \* useState {width, height}
    settings,               \* props.settings (the fields the reader reads)
    currentSection,         \* useState
    currentPage,            \* useState
    totalPages,             \* useState
    isReady,                \* useState
    hasNavigatedToInitial,  \* useRef
    scrollSize,             \* content.scrollWidth / scrollHeight of the DOM
    scrollPos,              \* scroll.scrollLeft / scrollTop of the DOM
    timers,                 \* pending setTimeout callbacks, in creation order
    wheelTimeoutRef,        \* useRef: ticks left of the wheel cooldown, 0 = null
    emitted,                \* the last step called onRelocated
    called,                 \* history: the navigation callback this step invoked
    request,                \* history: the index this step passed to goToPage / goToSection
    lastNav,                \* history: the chapter switch of the last input
    inputs,                 \* history: the number of inputs so far
    reader,                 \* the component that handles the gestures
    isDraggingRef,          \* useRef
    startPosRef,            \* useRef
    touchStartRef,          \* useRef: a touch state is stored
    dispatched,             \* what the last handler dispatched
    session,                \* history: the gesture session in progress
    initialProgress,        \* props.initialProgress (the stored sentence text)
    hasScrolledToInitial,   \* ContinuousReader useRef
    restoredTo,             \* where the ContinuousReader restoration scrolled to
    mounted,                \* the reader component is mounted
    lookup,                 \* the text hit of tryLookup and what getSentenceContext returned
    saves,                  \* history: the setItem calls issued, in call order
    pending,                \* the setItem calls whose write has not completed
    stored,                 \* the ln_progress record of the book
    dictPopup,              \* OCRContext: the dictionary popup state
    inflight,               \* the lookupYomitan calls that have not resolved
    storage,                \* Storage.storage: the backend and its items
    memory,                 \* Storage.memory: the in-memory fallback map
    lastSet,                \* history: what the last setItem of each key asked for
    currentIndexRef,        \* VirtualReader useRef
    currentPageRef,         \* VirtualReader useRef
    relocated               \* history: the last handleRelocated call and what it forwarded

navVars == <<chapters, initialChapter, initialPage, dimensions, settings,
             currentSection, currentPage, totalPages, isReady,
             hasNavigatedToInitial, scrollSize, scrollPos, timers,
             wheelTimeoutRef, emitted, called, request, lastNav, inputs>>

gestureVars == <<reader, isDraggingRef, startPosRef, touchStartRef, dispatched, session>>

storageVars == <<saves, pending, stored>>

\* state of the screen around the reader
popupVars == <<dictPopup, inflight>>
kvVars == <<storage, memory, lastSet>>
relocVars == <<currentIndexRef, currentPageRef, relocated>>
hostVars == <<popupVars, kvVars, relocVars>>

screenVars == <<initialProgress, hasScrolledToInitial, restoredTo, mounted, lookup,
                storageVars, hostVars>>

vars == <<navVars, gestureVars, screenVars>>

\* ------------------------------------------------------------ arithmetic
Max(a, b) == IF a >= b THEN a ELSE b
Min(a, b) == IF a <= b THEN a ELSE b
Abs(a) == IF a < 0 THEN 0 - a ELSE a

\* Math.round(a / b) for b # 0: floor(a / b + 1/2)
RoundDiv(a, b) ==
    IF b > 0 THEN (2 * a + b) \div (2 * b)
    ELSE (2 * (0 - a) + (0 - b)) \div (2 * (0 - b))

\* Math.ceil(a / b) for b > 0
CeilDiv(a, b) == 0 - ((0 - a) \div b)

\* ------------------------------------------------- derived render values
\* the React state and props of one render, as a record
Cur == [sec |-> currentSection, page |-> currentPage, total |-> totalPages,
        ready |-> isReady, hasNav |-> hasNavigatedToInitial,
        dims |-> dimensions, set |-> settings]

IsVertical(s) == s.set.lnReadingDirection \in {"vertical-rtl", "vertical-ltr"}
Padding(s) == IF s.set.lnPageMargin = 0 THEN DefaultPageMargin ELSE s.set.lnPageMargin
ContentWidth(s) == s.dims.width - Padding(s) * 2
ContentHeight(s) == s.dims.height - Padding(s) * 2
ColumnWidth(s) == IF IsVertical(s) THEN ContentHeight(s) ELSE ContentWidth(s)
ViewportSize(s) == IF IsVertical(s) THEN s.dims.height ELSE s.dims.width
PageSize(s) == ColumnWidth(s) + COLUMN_GAP
CurrentHtml(s) == IF s.sec \in DOMAIN chapters THEN chapters[s.sec] ELSE ""
\* the scroll container and the content exist only once dimensions are known
Rendered(s) == s.dims.width # 0 /\ s.dims.height # 0

\* --------------------------------------------------------- page calculation
\* the body of the measure timer: scrollSize, viewportSize, columnWidth -> pages
\* variant: the page count rounded up instead of to the nearest integer
CalcPagesCeil(size, viewport, columnWidth) ==
    IF size <= viewport + SinglePageEpsilon THEN 1
    ELSE LET pageWidth == columnWidth + COLUMN_GAP
         IN  IF pageWidth = 0 THEN Infinity
             ELSE Max(1, CeilDiv(size, pageWidth))

\* variant: the page count rounded down
CalcPagesFloor(size, viewport, columnWidth) ==
    IF size <= viewport + SinglePageEpsilon THEN 1
    ELSE LET pageWidth == columnWidth + COLUMN_GAP
         IN  IF pageWidth = 0 THEN Infinity
             ELSE IF pageWidth < 0 THEN 1
             ELSE Max(1, size \div pageWidth)

CalcPages(size, viewport, columnWidth) ==
    IF size <= viewport + SinglePageEpsilon THEN 1
    ELSE LET pageWidth == columnWidth + COLUMN_GAP
         IN  IF pageWidth = 0 THEN Infinity
             ELSE Max(1, RoundDiv(size, pageWidth))

\* ------------------------------------------------------------- the DOM
\* The amount of text of a chapter, as the column length it fills at font
\* size 18 without furigana.
TextLength(html) == CASE html = "a" -> 3800 [] html = "b" -> 400 [] OTHER -> 0

\* the number of CSS columns the content of render s is laid out in
Columns(s) ==
    LET length == (TextLength(CurrentHtml(s)) * s.set.lnFontSize
                      * (IF s.set.lnEnableFurigana THEN 11 ELSE 10)) \div 180
    IN  Max(1, CeilDiv(length, Max(1, ColumnWidth(s))))

\* what the layout of the content depends on
LayoutKey(s) == <<CurrentHtml(s), s.dims, s.set>>

\* the flow extent of the content laid out for render s: the padding box
\* around the columns, at least the viewport (minWidth / minHeight)
FlowExtent(s) ==
    IF ~Rendered(s) THEN 0
    ELSE Max(ViewportSize(s),
             Padding(s) * 2 + Columns(s) * ColumnWidth(s)
                 + (Columns(s) - 1) * COLUMN_GAP)

MaxScroll(size, s) == Max(0, size - ViewportSize(s))
ClampScroll(target, size, s) == Max(0, Min(target, MaxScroll(size, s)))

\* ------------------------------------------------------------- timers
Timer(kind, rem, last, vert) == [kind |-> kind, rem |-> rem, last |-> last, vert |-> vert]
KeepAll(tm, kind) == tm
Drop(tm, kind) == SelectSeq(tm, LAMBDA t : t.kind # kind)
Has(tm, kind) == \E i \in DOMAIN tm : tm[i].kind = kind
Due(tm) == {i \in DOMAIN tm : tm[i].rem = 0}
FirstDue(tm) == CHOOSE i \in Due(tm) : \A j \in Due(tm) : i <= j
Remove(tm, i) == [j \in 1..(Len(tm) - 1) |-> IF j < i THEN tm[j] ELSE tm[j + 1]]

\* ------------------------------------------------------------- handlers
\* A handler maps the render it was created in to the state it requests:
\*   s: React state, pos: scroll position, tm: timers, emit: onRelocated called
Handled(s, pos, tm, emit) == [s |-> s, pos |-> pos, tm |-> tm, emit |-> emit]

scrollToPage(h, page, vert) ==
    IF ~Rendered(h.s) THEN h
    ELSE LET target == page * PageSize(h.s)
             pos == IF vert = IsVertical(h.s)
                    THEN ClampScroll(target, scrollSize, h.s)
                    ELSE h.pos
         IN  [h EXCEPT !.pos = pos, !.s.page = page]

\* variant: the page bounded from below only
ClampPageNoUpper(page, total) == Max(0, page)

ClampPage(page, total) == Max(0, Min(page, total - 1))

goToPage(h, page) ==
    LET clamped == ClampPage(page, h.s.total)
    IN  IF clamped # h.s.page
        THEN [scrollToPage(h, clamped, IsVertical(h.s)) EXCEPT !.emit = TRUE]
        ELSE h

ClampSection(section) == Max(0, Min(section, NumChapters - 1))

goToSection(h, section, goToLastPage) ==
    LET clamped == ClampSection(section)
    IN  [h EXCEPT !.s.sec = clamped, !.s.page = 0, !.s.ready = FALSE,
                  !.s.hasNav = FALSE,
                  !.tm = Append(h.tm, Timer("section", SectionDelay,
                                            goToLastPage, IsVertical(h.s))),
                  !.emit = TRUE]

\* variant: the last page of the last chapter still asks for the next chapter
goNextNoLimit(h) ==
    IF h.s.page < h.s.total - 1 THEN goToPage(h, h.s.page + 1)
    ELSE goToSection(h, h.s.sec + 1, FALSE)

goNext(h) ==
    IF h.s.page < h.s.total - 1 THEN goToPage(h, h.s.page + 1)
    ELSE IF h.s.sec < NumChapters - 1 THEN goToSection(h, h.s.sec + 1, FALSE)
    ELSE h

goPrev(h) ==
    IF h.s.page > 0 THEN goToPage(h, h.s.page - 1)
    ELSE IF h.s.sec > 0 THEN goToSection(h, h.s.sec - 1, TRUE)
    ELSE h

goToStart(h) == goToPage(h, 0)
goToEnd(h) == goToPage(h, h.s.total - 1)

\* ------------------------------------------- render, commit and effects
\* dependency lists of the effects
CalcDeps(s) == <<CurrentHtml(s), s.dims, ContentWidth(s), ContentHeight(s),
                 ColumnWidth(s), IsVertical(s), Padding(s)>>
SettingsDeps(s) == <<s.set.lnFontSize, s.set.lnPageMargin,
                     s.set.lnReadingDirection, s.set.lnEnableFurigana>>
InitialNavDeps(s) == <<s.ready, ColumnWidth(s), IsVertical(s)>>
ResetFlagDeps(s) == <<s.sec>>
ScrollDeps(s) == <<ColumnWidth(s), IsVertical(s), s.page, s.sec>>

\* The state after React has rendered what handler result h requests on top
\* of render old, committed the DOM and run the effects whose dependencies
\* changed.
Commit(old, h) ==
    LET new == h.s
        \* the browser lays the content out again when its layout changed
        size == IF LayoutKey(old) = LayoutKey(new) THEN scrollSize ELSE FlowExtent(new)
        \* and keeps the scroll position within the new content
        pos == IF ~Rendered(new) \/ IsVertical(old) # IsVertical(new) THEN 0
               ELSE Min(h.pos, MaxScroll(size, new))
        \* page calculation effect: clear the timer, measure again in 50 ms
        t2 == IF CalcDeps(old) = CalcDeps(new) THEN h.tm
              ELSE IF Rendered(new) /\ ContentWidth(new) > 0
                   THEN Append(Drop(h.tm, "calc"), Timer("calc", CalcDelay, FALSE, FALSE))
                   ELSE Drop(h.tm, "calc")
        \* settings effect: if (isReady) setIsReady(false)
        unready == SettingsDeps(old) # SettingsDeps(new) /\ new.ready
        \* initial navigation effect
        d4 == InitialNavDeps(old) # InitialNavDeps(new)
        run4 == d4 /\ new.ready /\ ~new.hasNav
        t4 == IF ~d4 THEN t2
              ELSE IF run4
                   THEN Append(Drop(t2, "init"), Timer("init", InitialNavDelay, FALSE, FALSE))
                   ELSE Drop(t2, "init")
        nav4 == IF run4 THEN TRUE ELSE new.hasNav
        \* reset flag on chapter change
        nav5 == IF ResetFlagDeps(old) # ResetFlagDeps(new) /\ new.sec # initialChapter
                THEN FALSE ELSE nav4
        \* scroll tracking effect: its cleanup clears the debounce timer
        t6 == IF ScrollDeps(old) = ScrollDeps(new) THEN t4 ELSE Drop(t4, "scroll")
        \* second render after setIsReady(false): the initial navigation
        \* effect's cleanup clears its timer
        t7 == IF unready THEN Drop(t6, "init") ELSE t6
        \* the scroll event of a changed scroll position restarts the debounce
        t8 == IF Rendered(new) /\ pos # scrollPos
              THEN Append(Drop(t7, "scroll"), Timer("scroll", ScrollDebounce, FALSE, FALSE))
              ELSE t7
    IN  [s |-> [new EXCEPT !.ready = IF unready THEN FALSE ELSE new.ready,
                           !.hasNav = nav5],
         size |-> size, pos |-> pos, tm |-> t8, emit |-> h.emit]

\* the handler result that requests nothing
Idle == Handled(Cur, scrollPos, timers, FALSE)

SectionTimers(tm) == Len(SelectSeq(tm, LAMBDA t : t.kind = "section"))

Install(r) ==
    /\ SectionTimers(r.tm) <= MaxSectionTimers
    /\ currentSection' = r.s.sec
    /\ currentPage' = r.s.page
    /\ totalPages' = r.s.total
    /\ isReady' = r.s.ready
    /\ hasNavigatedToInitial' = r.s.hasNav
    /\ dimensions' = r.s.dims
    /\ settings' = r.s.set
    /\ scrollSize' = r.size
    /\ scrollPos' = r.pos
    /\ timers' = r.tm
    /\ emitted' = r.emit
    /\ UNCHANGED <<chapters, initialChapter, initialPage, gestureVars, screenVars>>

\* the chapter switch an input caused, for the history variable
NavOf(h) ==
    IF h.s.sec = currentSection + 1 THEN "next"
    ELSE IF h.s.sec = currentSection - 1 THEN "prev"
    ELSE "none"

\* ------------------------------------------------------------- Init
InitialSettings == [lnPageMargin |-> 0, lnReadingDirection |-> "horizontal",
                    lnFontSize |-> 18, lnEnableFurigana |-> TRUE]

\* no gesture has started: the refs hold their initial values
InitGesture ==
    /\ isDraggingRef = FALSE
    /\ startPosRef = [x |-> 0, y |-> 0]
    /\ touchStartRef = FALSE
    /\ dispatched = "none"
    /\ session = [phase |-> "idle", kind |-> "mouse", start |-> [x |-> 0, y |-> 0],
                  handled |-> FALSE, far |-> FALSE, moves |-> 0, result |-> "none",
                  hit |-> "none", click |-> "none", swiped |-> FALSE, log |-> <<>>,
                  target |-> "content", enableYomitan |-> TRUE, collapsed |-> TRUE]

\* no text hit yet
NoLookup == [text |-> <<>>, offset |-> 0, version |-> "sentence", done |-> FALSE,
             sentence |-> <<>>, byteOffset |-> 0]

\* no record in ln_progress
NoProgress == [chapterIndex |-> 0, pageNumber |-> 0, sentenceText |-> "", lastRead |-> 0]

\* the position of a progress record
Position(r) == [chapterIndex |-> r.chapterIndex, pageNumber |-> r.pageNumber,
                sentenceText |-> r.sentenceText]

\* no save has been issued
InitStorage ==
    /\ saves = <<>>
    /\ pending = {}
    /\ stored = NoProgress

\* no popup is shown and no lookup is under way
NoPopup == [visible |-> FALSE, startChar |-> "none", results |-> "none",
            isLoading |-> FALSE, systemLoading |-> FALSE, rects |-> "none"]

InitPopup ==
    /\ dictPopup = NoPopup
    /\ inflight = {}

\* a missing item, and the missing argument of setItem's last call
NullItem == "<null>"
Unset == "<unset>"
NoItems == [key \in StorageKeys |-> NullItem]

\* a Storage over a working backend, nothing written yet
InitKv ==
    /\ storage = [present |-> TRUE, items |-> NoItems]
    /\ memory = NoItems
    /\ lastSet = [key \in StorageKeys |-> Unset]

\* no relocation has been reported
NoRelocation == [made |-> FALSE, chapterIndex |-> 0, pageIndex |-> 0,
                 progressData |-> FALSE, before |-> <<>>, forwarded |-> FALSE,
                 parent |-> <<>>]

\* VirtualReader's refs start at the initial index and page
InitReloc ==
    /\ currentIndexRef = initialChapter
    /\ currentPageRef = initialPage
    /\ relocated = NoRelocation

InitHost == InitPopup /\ InitKv /\ InitReloc

\* nothing stored, the ContinuousReader restoration has not run
InitScreen ==
    /\ initialProgress = [sentenceText |-> ""]
    /\ hasScrolledToInitial = FALSE
    /\ restoredTo = "none"
    /\ mounted = TRUE
    /\ lookup = NoLookup
    /\ InitStorage
    /\ InitHost

\* The state after mounting: the mount effect has measured the wrapper, the
\* second render has created the scroll container and the content, and the
\* page calculation effect has scheduled the first measurement.
InitNav ==
    /\ chapters \in Books
    /\ initialChapter \in 0..(NumChapters - 1)
    /\ initialPage \in 0..MaxInitialPage
    /\ dimensions \in [width : MountWidths, height : Heights]
    /\ settings = InitialSettings
    /\ currentSection = initialChapter
    /\ currentPage = 0
    /\ totalPages = 1
    /\ isReady = FALSE
    /\ hasNavigatedToInitial = FALSE
    /\ scrollSize = FlowExtent(Cur)
    /\ scrollPos = 0
    /\ timers = <<Timer("calc", CalcDelay, FALSE, FALSE)>>
    /\ wheelTimeoutRef = 0
    /\ emitted = FALSE
    /\ called = "none"
    /\ request = <<>>
    /\ lastNav = "none"
    /\ inputs = 0

\* ------------------------------------------------- environment actions
\* ResizeObserver callback: updateDimensions
UpdateDimensions(w, h) ==
    /\ \/ Abs(dimensions.width - w) > ResizeTolerance
       \/ Abs(dimensions.height - h) > ResizeTolerance
    /\ Install(Commit(Cur, [Idle EXCEPT !.s.dims = [width |-> w, height |-> h]]))
    /\ called' = "none"
    /\ request' = <<>>
    /\ lastNav' = "none"
    /\ inputs < MaxInputs
    /\ inputs' = inputs + 1
    /\ UNCHANGED wheelTimeoutRef

\* the parent passes a changed settings object
ChangeSettings(new) ==
    /\ new # settings
    /\ Install(Commit(Cur, [Idle EXCEPT !.s.set = new]))
    /\ called' = "none"
    /\ request' = <<>>
    /\ lastNav' = "none"
    /\ inputs < MaxInputs
    /\ inputs' = inputs + 1
    /\ UNCHANGED wheelTimeoutRef

ChangeFontSize == \E f \in FontSizes : ChangeSettings([settings EXCEPT !.lnFontSize = f])
ToggleFurigana == ChangeSettings([settings EXCEPT !.lnEnableFurigana = ~@])
ChangeReadingDirection ==
    \E d \in Directions : ChangeSettings([settings EXCEPT !.lnReadingDirection = d])

\* ------------------------------------------------------ input actions
\* an input handler that ran navigation callback name with result h
Call(name, h, req) ==
    /\ Install(Commit(Cur, h))
    /\ called' = name
    /\ request' = req
    /\ lastNav' = NavOf(h)
    /\ inputs < MaxInputs
    /\ inputs' = inputs + 1

Input(name, h) == Call(name, h, <<>>)

\* variant: the next button enabled by the page alone
canGoNextPageOnly == currentPage < totalPages - 1

canGoNext == currentPage < totalPages - 1 \/ currentSection < NumChapters - 1
canGoPrev == currentPage > 0 \/ currentSection > 0

\* ReaderNavigationUI is rendered only when isReady; disabled buttons do not click
NavButtonNext ==
    /\ Rendered(Cur) /\ isReady /\ canGoNext
    /\ Input("goNext", goNext(Idle))
    /\ UNCHANGED wheelTimeoutRef

NavButtonPrev ==
    /\ Rendered(Cur) /\ isReady /\ canGoPrev
    /\ Input("goPrev", goPrev(Idle))
    /\ UNCHANGED wheelTimeoutRef

\* the page slider: onPageChange = goToPage, value within min..max
SliderChange ==
    /\ Rendered(Cur) /\ isReady /\ totalPages > 1
    /\ \E p \in 0..(totalPages - 1) : Call("goToPage", goToPage(Idle, p), <<p>>)
    /\ UNCHANGED wheelTimeoutRef

\* handleKeyNavigation: the fixed key mapping to the navigation callbacks
handleKeyNavigation(key, h) ==
    CASE key = "next"  -> [name |-> "goNext", h |-> goNext(h)]
      [] key = "prev"  -> [name |-> "goPrev", h |-> goPrev(h)]
      [] key = "start" -> [name |-> "goToStart", h |-> goToStart(h)]
      [] key = "end"   -> [name |-> "goToEnd", h |-> goToEnd(h)]
      [] OTHER         -> [name |-> "none", h |-> h]

\* handleKeyDown: a keydown of key on target; the events it returns from at
\* once are no step
handleKeyDown(key, target) ==
    /\ target \notin {"INPUT", "TEXTAREA"}
    /\ LET r == handleKeyNavigation(key, Idle)
       IN  Input(r.name, r.h)
    /\ UNCHANGED wheelTimeoutRef

\* window keydown listener
KeyDown == \E key \in Keys, target \in KeyTargets : handleKeyDown(key, target)

\* a keydown while the focus is in an editable element
KeyDownInField == \E key \in Keys, target \in EditableTargets : handleKeyDown(key, target)

WheelNoCooldown ==
    \E delta \in WheelDeltas :
        /\ Rendered(Cur)
        /\ IF Abs(delta) > WheelThreshold
           THEN /\ IF delta > 0
                   THEN Input("goNext", goNext(Idle))
                   ELSE Input("goPrev", goPrev(Idle))
                /\ wheelTimeoutRef' = WheelCooldown
           ELSE /\ Input("none", Idle)
                /\ UNCHANGED wheelTimeoutRef

\* wheel listener of the scroll container
Wheel ==
    \E delta \in WheelDeltas :
        /\ Rendered(Cur)
        /\ wheelTimeoutRef = 0
        /\ IF Abs(delta) > WheelThreshold
           THEN /\ IF delta > 0
                   THEN Input("goNext", goNext(Idle))
                   ELSE Input("goPrev", goPrev(Idle))
                /\ wheelTimeoutRef' = WheelCooldown
           ELSE /\ Input("none", Idle)
                /\ UNCHANGED wheelTimeoutRef

\* handleWheel for one wheel event of the given delta
handleWheel(delta) ==
    /\ Rendered(Cur)
    /\ wheelTimeoutRef = 0
    /\ IF Abs(delta) > WheelThreshold
       THEN /\ IF delta > 0
               THEN Input("goNext", goNext(Idle))
               ELSE Input("goPrev", goPrev(Idle))
            /\ wheelTimeoutRef' = WheelCooldown
       ELSE /\ Input("none", Idle)
            /\ UNCHANGED wheelTimeoutRef

\* a wheel event of a fine-grained device: a forward delta at or below the
\* threshold
WheelSmall == \E delta \in SmallWheelDeltas : handleWheel(delta)

\* handleTouchEndEvent when handleTouchEnd reports a swipe
SwipeNav ==
    \E result \in {"next", "prev"} :
        /\ Rendered(Cur)
        /\ IF result = "next"
           THEN Input("goNext", goNext(Idle))
           ELSE Input("goPrev", goPrev(Idle))
        /\ UNCHANGED wheelTimeoutRef

\* ------------------------------------------------------------- timers
Fire(kind) ==
    /\ Due(timers) # {}
    /\ timers[FirstDue(timers)].kind = kind

Fired == [Idle EXCEPT !.tm = Remove(timers, FirstDue(timers))]

TimerStep(h) ==
    /\ Install(Commit(Cur, h))
    /\ called' = "none"
    /\ request' = <<>>
    /\ UNCHANGED <<wheelTimeoutRef, lastNav, inputs>>

\* the page calculation timer
CalcFire ==
    /\ Fire("calc")
    /\ TimerStep([Fired EXCEPT
           !.s.total = CalcPages(scrollSize, ViewportSize(Cur), ColumnWidth(Cur)),
           !.s.ready = TRUE])

\* the initial navigation timer
InitialNavFire ==
    /\ Fire("init")
    /\ TimerStep(IF initialPage > 0
                 THEN scrollToPage(Fired, initialPage, IsVertical(Cur))
                 ELSE Fired)

\* the goToSection timer
SectionFire ==
    /\ Fire("section")
    /\ LET t == timers[FirstDue(timers)]
       IN  TimerStep(IF t.last /\ Rendered(Cur)
                     THEN IF t.vert = IsVertical(Cur)
                          THEN [Fired EXCEPT !.pos = MaxScroll(scrollSize, Cur)]
                          ELSE Fired
                     ELSE scrollToPage(Fired, 0, t.vert))

\* handleScroll, 100 ms after the last scroll event
ScrollFire ==
    /\ Fire("scroll")
    /\ LET page == RoundDiv(scrollPos, PageSize(Cur))
       IN  TimerStep(IF page # currentPage
                     THEN [Fired EXCEPT !.s.page = page, !.emit = TRUE]
                     ELSE Fired)

\* 50 ms pass; the wheel cooldown timer only clears its ref
Tick ==
    /\ timers # <<>> \/ wheelTimeoutRef > 0
    /\ Due(timers) = {}
    /\ timers' = [i \in DOMAIN timers |-> [timers[i] EXCEPT !.rem = @ - 1]]
    /\ wheelTimeoutRef' = Max(0, wheelTimeoutRef - 1)
    /\ emitted' = FALSE
    /\ called' = "none"
    /\ request' = <<>>
    /\ UNCHANGED <<chapters, initialChapter, initialPage, dimensions, settings,
                   currentSection, currentPage, totalPages, isReady,
                   hasNavigatedToInitial, scrollSize, scrollPos, lastNav, inputs,
                   gestureVars, screenVars>>

Next ==
    \/ \E w \in Widths, h \in Heights : UpdateDimensions(w, h)
    \/ ChangeFontSize
    \/ ToggleFurigana
    \/ ChangeReadingDirection
    \/ NavButtonNext
    \/ NavButtonPrev
    \/ SliderChange
    \/ Wheel
    \/ SwipeNav
    \/ KeyDown
    \/ CalcFire
    \/ InitialNavFire
    \/ SectionFire
    \/ ScrollFire
    \/ Tick

Init == InitNav /\ InitGesture /\ InitScreen /\ reader = "PagedReader"

Spec == Init /\ [][Next]_vars

\* the reader driven by the mouse wheel only
NextWheel ==
    \/ Wheel
    \/ CalcFire
    \/ InitialNavFire
    \/ SectionFire
    \/ ScrollFire
    \/ Tick

WheelSpec == Init /\ [][NextWheel]_vars

\* the reader driven by small forward wheel events only
NextWheelSmall ==
    \/ WheelSmall
    \/ CalcFire
    \/ InitialNavFire
    \/ ScrollFire
    \/ Tick

WheelSmallSpec == Init /\ [][NextWheelSmall]_vars

\* the reader mounted on the chapter index the screen hands down
InitMountNav ==
    /\ chapters \in Books
    /\ initialChapter \in StoredChapterIndexes
    /\ initialPage \in 0..MaxInitialPage
    /\ dimensions \in [width : MountWidths, height : Heights]
    /\ settings = InitialSettings
    /\ currentSection = initialChapter
    /\ currentPage = 0
    /\ totalPages = 1
    /\ isReady = FALSE
    /\ hasNavigatedToInitial = FALSE
    /\ scrollSize = FlowExtent(Cur)
    /\ scrollPos = 0
    /\ timers = <<Timer("calc", CalcDelay, FALSE, FALSE)>>
    /\ wheelTimeoutRef = 0
    /\ emitted = FALSE
    /\ called = "none"
    /\ request = <<>>
    /\ lastNav = "none"
    /\ inputs = 0

InitMount == InitMountNav /\ InitGesture /\ InitScreen /\ reader = "PagedReader"

NextMount ==
    \/ NavButtonNext
    \/ NavButtonPrev
    \/ CalcFire
    \/ InitialNavFire
    \/ SectionFire
    \/ ScrollFire
    \/ Tick

MountSpec == InitMount /\ [][NextMount]_vars

\* the reader under layout changes and page turns
NextRecompute ==
    \/ \E w \in Widths, h \in Heights : UpdateDimensions(w, h)
    \/ ChangeFontSize
    \/ ToggleFurigana
    \/ ChangeReadingDirection
    \/ NavButtonNext
    \/ NavButtonPrev
    \/ CalcFire
    \/ InitialNavFire
    \/ SectionFire
    \/ ScrollFire
    \/ Tick

RecomputeSpec == Init /\ [][NextRecompute]_vars

\* the reader while the focus is in an editable element
NextKey ==
    \/ KeyDownInField
    \/ CalcFire
    \/ InitialNavFire
    \/ SectionFire
    \/ ScrollFire
    \/ Tick

KeySpec == Init /\ [][NextKey]_vars

\* -------------------------------------- the callbacks called directly
ApiGoToPage ==
    /\ \E p \in PageRequests : Call("goToPage", goToPage(Idle, p), <<p>>)
    /\ UNCHANGED wheelTimeoutRef

ApiGoToSection ==
    /\ \E section \in SectionRequests, goToLastPage \in BOOLEAN :
           Call("goToSection", goToSection(Idle, section, goToLastPage), <<section>>)
    /\ UNCHANGED wheelTimeoutRef

NextApi ==
    \/ \E w \in Widths, h \in Heights : UpdateDimensions(w, h)
    \/ ChangeFontSize
    \/ ChangeReadingDirection
    \/ ApiGoToPage
    \/ ApiGoToSection
    \/ CalcFire
    \/ InitialNavFire
    \/ SectionFire
    \/ ScrollFire
    \/ Tick

ApiSpec == Init /\ [][NextApi]_vars

\* ------------------------------------ the timers run whenever they are due
FairSpec ==
    /\ Init
    /\ [][Next]_vars
    /\ WF_vars(Tick)
    /\ WF_vars(CalcFire)
    /\ WF_vars(InitialNavFire)
    /\ WF_vars(SectionFire)
    /\ WF_vars(ScrollFire)

\* ------------------------------------------ the page calculation alone
\* a mounted reader of any layout whose content has any flow extent
InitCalc ==
    /\ chapters = [i \in 0..(NumChapters - 1) |-> "a"]
    /\ initialChapter = 0
    /\ initialPage = 0
    /\ dimensions \in [width : CalcWidths, height : CalcHeights]
    /\ settings \in [lnPageMargin : CalcMargins, lnReadingDirection : Directions,
                     lnFontSize : {18}, lnEnableFurigana : {TRUE}]
    /\ currentSection = 0
    /\ currentPage = 0
    /\ totalPages = 1
    /\ isReady = FALSE
    /\ hasNavigatedToInitial = FALSE
    /\ scrollSize \in CalcExtents(ViewportSize(Cur)) \cup BoundaryExtents(PageSize(Cur))
    /\ scrollSize >= ViewportSize(Cur)
    /\ scrollPos = 0
    /\ timers = IF ContentWidth(Cur) > 0
                THEN <<Timer("calc", CalcDelay, FALSE, FALSE)>>
                ELSE <<>>
    /\ wheelTimeoutRef = 0
    /\ emitted = FALSE
    /\ called = "none"
    /\ request = <<>>
    /\ lastNav = "none"
    /\ inputs = 0

NextCalc ==
    \/ CalcFire
    \/ InitialNavFire
    \/ Tick

InitCalcSpec == InitCalc /\ InitGesture /\ InitScreen /\ reader = "PagedReader"

CalcSpec == InitCalcSpec /\ [][NextCalc]_vars

\* ------------------------------------------------------ gesture sessions
HandlesPointer(r) == r \in {"ContinuousReader", "useReaderCore"}
HandlesTouch(r) == r \in {"PagedReader", "useReaderCore"}

\* variant: the drag test on the sum of the two displacements
ExceedsThresholdSum(start, p) ==
    LET dx == Abs(p.x - start.x)
        dy == Abs(p.y - start.y)
    IN  dx + dy > DRAG_THRESHOLD

\* the drag test of handlePointerMove / handleTouchMove
ExceedsThreshold(start, p) ==
    LET dx == Abs(p.x - start.x)
        dy == Abs(p.y - start.y)
    IN  dx > DRAG_THRESHOLD \/ dy > DRAG_THRESHOLD

\* the Euclidean distance between start and p is more than DRAG_THRESHOLD
FartherThanThreshold(start, p) ==
    (p.x - start.x) * (p.x - start.x) + (p.y - start.y) * (p.y - start.y)
        > DRAG_THRESHOLD * DRAG_THRESHOLD

NavUnchanged == UNCHANGED <<navVars, screenVars>>

\* handlePointerDown / handleTouchStart: a press of kind at point p
Down(kind, p) ==
    /\ session.phase # "tracking"
    /\ LET handled == HandlesPointer(reader) \/ (kind = "touch" /\ HandlesTouch(reader))
       IN  /\ isDraggingRef' = IF handled THEN FALSE ELSE isDraggingRef
           /\ startPosRef' = IF handled THEN p ELSE startPosRef
           /\ session' = [phase |-> "tracking", kind |-> kind, start |-> p,
                          handled |-> handled, far |-> FALSE, moves |-> 0,
                          result |-> "none", hit |-> "none", click |-> "none",
                          swiped |-> FALSE, log |-> <<>>, target |-> "content",
                          enableYomitan |-> TRUE, collapsed |-> TRUE]
    /\ touchStartRef' = IF kind = "touch" /\ HandlesTouch(reader) THEN TRUE ELSE touchStartRef
    /\ dispatched' = "none"
    /\ UNCHANGED reader
    /\ NavUnchanged

\* handlePointerMove / handleTouchMove: the pressed pointer moves to p
Move(p) ==
    /\ session.phase = "tracking"
    /\ session.moves < MaxMoves
    /\ LET handled == HandlesPointer(reader)
                        \/ (session.kind = "touch" /\ HandlesTouch(reader))
       IN  isDraggingRef' = IF handled /\ ExceedsThreshold(startPosRef, p)
                            THEN TRUE ELSE isDraggingRef
    /\ session' = [session EXCEPT !.moves = @ + 1,
                                  !.far = @ \/ FartherThanThreshold(session.start, p)]
    /\ dispatched' = "none"
    /\ UNCHANGED <<reader, startPosRef, touchStartRef>>
    /\ NavUnchanged

\* onPointerMove also runs while the mouse moves with no button pressed
Hover(p) ==
    /\ session.phase # "tracking"
    /\ session.click # "pending"
    /\ HandlesPointer(reader)
    /\ ExceedsThreshold(startPosRef, p)
    /\ ~isDraggingRef
    /\ isDraggingRef' = TRUE
    /\ dispatched' = "none"
    /\ UNCHANGED <<reader, startPosRef, touchStartRef, session>>
    /\ NavUnchanged

\* what a handler dispatched, appended to the session's log
Logged(log, d) == IF d = "none" THEN log ELSE Append(log, d)

\* the release at a point where the hit test finds hit: handleTouchEndEvent
\* for a touch (swipe is the result of handleTouchEnd, which has called
\* goNext / goPrev itself); click tells whether the browser sends a click
\* event for this release
Release(swipe, hit, click) ==
    /\ session.phase = "tracking"
    /\ LET touchEnd == session.kind = "touch" /\ HandlesTouch(reader) /\ touchStartRef
           d == IF ~touchEnd THEN "none"
                ELSE IF swipe # "none" THEN "navigate"
                ELSE IF isDraggingRef THEN "none"
                ELSE IF reader = "useReaderCore" /\ hit # "none" THEN "none"
                ELSE "toggle"
       IN  /\ touchStartRef' = IF touchEnd THEN FALSE ELSE touchStartRef
           /\ dispatched' = d
           /\ session' = [session EXCEPT
                            !.phase = "ended",
                            !.result = IF isDraggingRef THEN "drag" ELSE "tap",
                            !.hit = hit,
                            !.click = IF click THEN "pending" ELSE "none",
                            !.swiped = touchEnd /\ swipe # "none",
                            !.log = Logged(@, d)]
    /\ UNCHANGED <<reader, isDraggingRef, startPosRef>>
    /\ NavUnchanged

\* tryLookup: whether a lookup is started
tryLookup(hit, target, enableYomitan, collapsed) ==
    /\ enableYomitan
    /\ target \notin {"link", "input"}
    /\ collapsed
    /\ hit = "char"

\* handleClick of PagedReader and ContinuousReader
handleClick(dragging, hit, target, enableYomitan, collapsed) ==
    IF dragging THEN "none"
    ELSE IF target = "link" THEN "none"
    ELSE IF tryLookup(hit, target, enableYomitan, collapsed) THEN "lookup"
    ELSE "toggle"

\* handleContentClick of useReaderCore
handleContentClick(dragging, hit, target, enableYomitan, collapsed) ==
    IF dragging THEN "none"
    ELSE IF target \in {"link", "popup"} THEN "none"
    ELSE IF hit # "none"
         THEN IF tryLookup(hit, target, enableYomitan, collapsed) THEN "lookup" ELSE "none"
    ELSE "toggle"

\* the click event that follows a release
Click(target, enableYomitan, collapsed) ==
    /\ session.phase = "ended"
    /\ session.click = "pending"
    /\ LET d == IF reader = "useReaderCore"
                THEN handleContentClick(isDraggingRef, session.hit, target,
                                        enableYomitan, collapsed)
                ELSE handleClick(isDraggingRef, session.hit, target,
                                 enableYomitan, collapsed)
       IN  /\ dispatched' = d
           /\ session' = [session EXCEPT !.click = "done", !.log = Logged(@, d),
                                         !.target = target,
                                         !.enableYomitan = enableYomitan,
                                         !.collapsed = collapsed]
    /\ UNCHANGED <<reader, isDraggingRef, startPosRef, touchStartRef>>
    /\ NavUnchanged

PointsAround(start) == {[x |-> start.x + dx, y |-> start.y + dy] : dx \in Offsets, dy \in Offsets}

NextGesture ==
    \/ \E kind \in InputKinds, p \in StartPoints : Down(kind, p)
    \/ \E p \in PointsAround(session.start) : Move(p)
    \/ \E p \in PointsAround(startPosRef) : Hover(p)
    \/ \E swipe \in SwipeResults, hit \in Hits, click \in BOOLEAN : Release(swipe, hit, click)
    \/ \E target \in Targets, enableYomitan \in BOOLEAN, collapsed \in BOOLEAN :
          Click(target, enableYomitan, collapsed)

InitGestureSpec ==
    /\ InitNav
    /\ InitGesture
    /\ InitScreen
    /\ reader \in Readers
    /\ initialChapter = 0
    /\ initialPage = 0
    /\ chapters[0] = "a"
    /\ dimensions = [width |-> 1000, height |-> 1000]

GestureSpec == InitGestureSpec /\ [][NextGesture]_vars

\* ------------------------------------------------------------ restoration
\* where sentence text starts in the text of a chapter, in the units of
\* TextLength; -1 when the chapter does not hold it
SentenceOffset(html, text) ==
    CASE html = "a" /\ text = "s0" -> 0
      [] html = "a" /\ text = "s1" -> 1900
      [] html = "a" /\ text = "s2" -> 3700
      [] html = "b" /\ text = "s0" -> 0
      [] OTHER -> 0 - 1

\* the sentences that lie inside one text node of the chapter; "s2" holds
\* inline markup (ruby), so it is spread over several text nodes
InOneTextNode(html, text) == SentenceOffset(html, text) >= 0 /\ text # "s2"

\* the page (CSS column) of render s that shows sentence text
SentencePage(s, text) ==
    LET start == (SentenceOffset(CurrentHtml(s), text) * s.set.lnFontSize
                     * (IF s.set.lnEnableFurigana THEN 11 ELSE 10)) \div 180
    IN  Min(Columns(s) - 1, start \div Max(1, ColumnWidth(s)))

\* the ContinuousReader restoration timer (200 ms after mount)
RestorationFire ==
    /\ reader = "ContinuousReader"
    /\ ~hasScrolledToInitial
    /\ hasScrolledToInitial' = TRUE
    /\ restoredTo' =
         IF initialProgress.sentenceText # ""
               /\ InOneTextNode(chapters[initialChapter], initialProgress.sentenceText)
         THEN initialProgress.sentenceText
         ELSE IF initialChapter > 0 THEN "chapter" ELSE "start"
    /\ UNCHANGED <<navVars, gestureVars, initialProgress, mounted, lookup, storageVars,
                   hostVars>>

\* a reader mounted with a stored position
InitRestore ==
    /\ InitGesture
    /\ reader \in {"PagedReader", "ContinuousReader"}
    /\ chapters \in Books
    /\ initialChapter \in 0..(NumChapters - 1)
    /\ initialPage \in 0..MaxInitialPage
    /\ initialProgress \in [sentenceText : SentenceTexts \cup {""}]
    /\ hasScrolledToInitial = FALSE
    /\ restoredTo = "none"
    /\ mounted = TRUE
    /\ lookup = NoLookup
    /\ InitStorage
    /\ InitHost
    /\ dimensions \in [width : Widths, height : Heights]
    /\ settings \in [lnPageMargin : {0}, lnReadingDirection : {"horizontal"},
                     lnFontSize : FontSizes, lnEnableFurigana : {TRUE}]
    /\ currentSection = initialChapter
    /\ currentPage = 0
    /\ totalPages = 1
    /\ isReady = FALSE
    /\ hasNavigatedToInitial = FALSE
    /\ scrollSize = FlowExtent(Cur)
    /\ scrollPos = 0
    /\ timers = IF reader = "PagedReader"
                THEN <<Timer("calc", CalcDelay, FALSE, FALSE)>>
                ELSE <<>>
    /\ wheelTimeoutRef = 0
    /\ emitted = FALSE
    /\ called = "none"
    /\ request = <<>>
    /\ lastNav = "none"
    /\ inputs = 0

NextRestore ==
    \/ CalcFire
    \/ InitialNavFire
    \/ ScrollFire
    \/ Tick
    \/ RestorationFire

RestoreSpec == InitRestore /\ [][NextRestore]_vars

\* ---------------------------------------------------------------------------
\* Progress persistence (LNReaderScreen.handleSaveProgress, AppStorage)
\* ---------------------------------------------------------------------------

\* String.prototype.trim on the sentence values of the model
Trim(text) == CASE text = " " -> ""
                [] text = " s0" -> "s0"
                [] OTHER -> text

\* AppStorage.saveLnProgress: the record handed to lnProgress.setItem; the
\* clock is the number of saves issued so far
saveLnProgress(progress) ==
    /\ saves' = Append(saves, [progress EXCEPT !.lastRead = Len(saves) + 1])
    /\ pending' = pending \cup {Len(saves) + 1}
    /\ UNCHANGED stored

\* variant: every relocation is saved, with or without a sentence
handleSaveProgressAlways(id, chapterIndex, pageIndex, sentenceText) ==
    /\ Len(saves) < MaxSaves
    /\ IF id = ""
       THEN UNCHANGED storageVars
       ELSE saveLnProgress([chapterIndex |-> chapterIndex, pageNumber |-> pageIndex,
                            sentenceText |-> Trim(sentenceText), lastRead |-> Len(saves) + 1])
    /\ UNCHANGED <<navVars, gestureVars, initialProgress, hasScrolledToInitial, restoredTo,
                   mounted, lookup, hostVars>>

\* LNReaderScreen.handleSaveProgress(chapterIndex, pageIndex, extraData)
handleSaveProgress(id, chapterIndex, pageIndex, sentenceText) ==
    /\ Len(saves) < MaxSaves
    /\ IF id = "" \/ Trim(sentenceText) = ""
       THEN UNCHANGED storageVars
       ELSE saveLnProgress([chapterIndex |-> chapterIndex, pageNumber |-> pageIndex,
                            sentenceText |-> Trim(sentenceText), lastRead |-> Len(saves) + 1])
    /\ UNCHANGED <<navVars, gestureVars, initialProgress, hasScrolledToInitial, restoredTo,
                   mounted, lookup, hostVars>>

\* the asynchronous write of one setItem call completes: the record of the
\* book is replaced by the value of that call
setItemDone(i) ==
    /\ i \in pending
    /\ stored' = saves[i]
    /\ pending' = pending \ {i}
    /\ UNCHANGED <<saves, navVars, gestureVars, initialProgress, hasScrolledToInitial,
                   restoredTo, mounted, lookup, hostVars>>

NextSave ==
    \/ \E id \in BookIds, c \in 0..(NumChapters - 1), pg \in SavedPages,
          text \in SavedTexts : handleSaveProgress(id, c, pg, text)
    \/ \E i \in 1..MaxSaves : setItemDone(i)

\* the reader screen of one book, nothing saved yet
InitSave ==
    /\ Init
    /\ chapters[0] = "a"
    /\ initialChapter = 0
    /\ initialPage = 0
    /\ dimensions.width = 1000

SaveSpec == InitSave /\ [][NextSave]_vars

\* ---------------------------------------------------------------------------
\* Teardown of the PagedReader
\* ---------------------------------------------------------------------------

\* React unmounts the reader: the cleanups of the page calculation, initial
\* navigation and scroll tracking effects clear their timers
Unmount ==
    /\ mounted
    /\ mounted' = FALSE
    /\ timers' = Drop(Drop(Drop(timers, "calc"), "init"), "scroll")
    /\ UNCHANGED <<chapters, initialChapter, initialPage, dimensions, settings,
                   currentSection, currentPage, totalPages, isReady,
                   hasNavigatedToInitial, scrollSize, scrollPos, wheelTimeoutRef,
                   emitted, called, request, lastNav, inputs, gestureVars,
                   initialProgress, hasScrolledToInitial, restoredTo, lookup,
                   storageVars, hostVars>>

\* a reader that is used and then left
NextTeardown ==
    \/ mounted /\ NavButtonNext
    \/ mounted /\ NavButtonPrev
    \/ mounted /\ CalcFire
    \/ mounted /\ InitialNavFire
    \/ mounted /\ SectionFire
    \/ mounted /\ ScrollFire
    \/ mounted /\ Tick
    \/ Unmount

TeardownSpec == Init /\ [][NextTeardown]_vars

\* ---------------------------------------------------------------------------
\* Sentence extraction (useTextLookup.getSentenceContext)
\* ---------------------------------------------------------------------------

\* /\s/ and /[。！？.!?]/ on the characters of the model
IsWhitespace(c) == c = " "
IsTerminator(c) == c \in {".", "o"}

\* TextEncoder.encode(str).length
ByteLen(c) == IF c \in {"k", "o"} THEN 3 ELSE 1
RECURSIVE Utf8Length(_)
Utf8Length(str) == IF str = <<>> THEN 0 ELSE ByteLen(Head(str)) + Utf8Length(Tail(str))

\* String.prototype.substring(from, to) with 0-based indices
Substring(str, from, to) ==
    LET a == Max(0, Min(from, Len(str)))
        b == Max(0, Min(to, Len(str)))
    IN  SubSeq(str, Min(a, b) + 1, Max(a, b))

\* the number of whitespace characters str begins / ends with
RECURSIVE LeadingSpaces(_)
LeadingSpaces(str) ==
    IF str # <<>> /\ IsWhitespace(Head(str)) THEN 1 + LeadingSpaces(Tail(str)) ELSE 0
RECURSIVE TrailingSpaces(_)
TrailingSpaces(str) ==
    IF str # <<>> /\ IsWhitespace(str[Len(str)])
    THEN 1 + TrailingSpaces(SubSeq(str, 1, Len(str) - 1)) ELSE 0

\* String.prototype.trim
trim(str) ==
    IF LeadingSpaces(str) = Len(str) THEN <<>>
    ELSE SubSeq(str, LeadingSpaces(str) + 1, Len(str) - TrailingSpaces(str))

\* the 0-based indices below totalOffset that hold a terminator
TerminatorsBefore(fullText, totalOffset) ==
    {i \in 0..(totalOffset - 1) : IsTerminator(fullText[i + 1])}

\* the backward loop: one past the nearest terminator before totalOffset, or 0
SentenceStart(fullText, totalOffset) ==
    LET before == TerminatorsBefore(fullText, totalOffset)
    IN  IF before = {} THEN 0
        ELSE (CHOOSE i \in before : \A j \in before : j <= i) + 1

\* sentenceEndRegex has the g flag: test() starts at lastIndex, which is 1
\* after the match that ended the backward loop and 0 after a failed test
LastIndexAfterBackward(fullText, totalOffset) ==
    IF TerminatorsBefore(fullText, totalOffset) = {} THEN 0 ELSE 1

\* the forward loop from index first: one past the first terminator found
\* (a test that starts at lastIndex 1 of a one-character string fails), or
\* the length of the text
SentenceEndFrom(fullText, totalOffset, lastIndex) ==
    LET first == IF lastIndex = 1 THEN totalOffset + 1 ELSE totalOffset
        after == {i \in first..(Len(fullText) - 1) : IsTerminator(fullText[i + 1])}
    IN  IF after = {} THEN Len(fullText)
        ELSE (CHOOSE i \in after : \A j \in after : i <= j) + 1

SentenceEnd(fullText, totalOffset) ==
    SentenceEndFrom(fullText, totalOffset, LastIndexAfterBackward(fullText, totalOffset))

\* getSentenceContext of lines 82-146, for the hit at totalOffset of the
\* block's text
getSentenceContext(fullText, totalOffset) ==
    LET sentenceStart == SentenceStart(fullText, totalOffset)
        sentenceEnd == SentenceEnd(fullText, totalOffset)
        sentence == trim(Substring(fullText, sentenceStart, sentenceEnd))
        offsetInSentence == totalOffset - sentenceStart
        sentencePrefix == Substring(sentence, 0, offsetInSentence)
    IN  [sentence |-> sentence, byteOffset |-> Utf8Length(sentencePrefix)]

\* getSentenceContext of lines 373-407: the block's whole text
getSentenceContextBlock(fullText, totalOffset) ==
    [sentence |-> fullText, byteOffset |-> Utf8Length(Substring(fullText, 0, totalOffset))]

\* tryLookup up to its call of getSentenceContext: a hit on whitespace
\* returns before the call
SentenceLookup ==
    /\ ~lookup.done
    /\ ~IsWhitespace(lookup.text[lookup.offset + 1])
    /\ LET r == IF lookup.version = "sentence"
                THEN getSentenceContext(lookup.text, lookup.offset)
                ELSE getSentenceContextBlock(lookup.text, lookup.offset)
       IN  lookup' = [lookup EXCEPT !.done = TRUE, !.sentence = r.sentence,
                                    !.byteOffset = r.byteOffset]
    /\ UNCHANGED <<navVars, gestureVars, initialProgress, hasScrolledToInitial,
                   restoredTo, mounted, storageVars, hostVars>>

\* a text hit: the block's text, the offset of the hit and the version of the hook
InitLookup ==
    /\ InitNav
    /\ chapters[0] = "a"
    /\ initialChapter = 0
    /\ initialPage = 0
    /\ InitGesture
    /\ reader = "PagedReader"
    /\ initialProgress = [sentenceText |-> ""]
    /\ hasScrolledToInitial = FALSE
    /\ restoredTo = "none"
    /\ mounted = TRUE
    /\ InitStorage
    /\ InitHost
    /\ \E text \in Texts, offset \in 0..(MaxLen - 1), version \in Versions :
          /\ offset < Len(text)
          /\ lookup = [NoLookup EXCEPT !.text = text, !.offset = offset,
                                       !.version = version]

NextLookup == SentenceLookup

LookupSpec == InitLookup /\ [][NextLookup]_vars

\* ---------------------------------------------------------------------------
\* The dictionary popup of tryLookup
\* ---------------------------------------------------------------------------

\* tryLookup on character c, up to its await: the popup shows the loading
\* state with the initial highlight of c, and lookupYomitan is called
StartLookup(c) ==
    /\ c \notin inflight
    /\ dictPopup' = [visible |-> TRUE, startChar |-> c, results |-> "none",
                     isLoading |-> TRUE, systemLoading |-> FALSE, rects |-> c]
    /\ inflight' = inflight \cup {c}
    /\ UNCHANGED <<navVars, gestureVars, initialProgress, hasScrolledToInitial,
                   restoredTo, mounted, lookup, storageVars, kvVars, relocVars>>

\* tryLookup after its await: the call for character c resolves to r and
\* the popup is updated from its previous state; the results and the
\* highlight rectangles are those of c
ResolveLookup(c, r) ==
    /\ c \in inflight
    /\ inflight' = inflight \ {c}
    /\ dictPopup' = IF r = "loading"
                    THEN [dictPopup EXCEPT !.results = "none", !.isLoading = FALSE,
                                           !.systemLoading = TRUE]
                    ELSE [dictPopup EXCEPT !.results = c, !.isLoading = FALSE,
                                           !.systemLoading = FALSE, !.rects = c]
    /\ UNCHANGED <<navVars, gestureVars, initialProgress, hasScrolledToInitial,
                   restoredTo, mounted, lookup, storageVars, kvVars, relocVars>>

NextPopup ==
    \/ \E c \in LookupChars : StartLookup(c)
    \/ \E c \in LookupChars, r \in LookupResponses : ResolveLookup(c, r)

PopupSpec == Init /\ [][NextPopup]_vars

\* ---------------------------------------------------------------------------
\* Storage: a web storage backend with an in-memory fallback
\* ---------------------------------------------------------------------------

\* JSON.stringify of a number of the model
JsonStringify(num) == CASE num = 7 -> "7" [] OTHER -> "0"

\* the string setItem stores for a defined value
ValueToStore(value) ==
    IF value.type # "string" THEN JsonStringify(value.num) ELSE value.text

\* Storage.getItem(key); throws tells whether the backend's getItem throws
getItem(key, throws) ==
    IF ~storage.present THEN memory[key]
    ELSE IF throws THEN memory[key]
    ELSE storage.items[key]

\* Storage.setItem(key, value); throws tells whether the backend's
\* removeItem / setItem throws, which leaves the backend as it was
setItem(key, value, throws) ==
    /\ IF value = Undefined
       THEN IF storage.present /\ ~throws
            THEN /\ storage' = [storage EXCEPT !.items[key] = NullItem]
                 /\ UNCHANGED memory
            ELSE /\ memory' = [memory EXCEPT ![key] = NullItem]
                 /\ UNCHANGED storage
       ELSE IF storage.present /\ ~throws
            THEN /\ storage' = [storage EXCEPT !.items[key] = ValueToStore(value)]
                 /\ UNCHANGED memory
            ELSE /\ memory' = [memory EXCEPT ![key] = ValueToStore(value)]
                 /\ UNCHANGED storage
    /\ lastSet' = [lastSet EXCEPT ![key] = IF value = Undefined THEN NullItem
                                           ELSE ValueToStore(value)]
    /\ UNCHANGED <<navVars, gestureVars, initialProgress, hasScrolledToInitial,
                   restoredTo, mounted, lookup, storageVars, popupVars, relocVars>>

NextKv ==
    \E key \in StorageKeys, value \in SetValues, throws \in BOOLEAN :
        setItem(key, value, throws)

\* a Storage constructed with or without a backend
InitKvSpec ==
    /\ InitNav
    /\ InitGesture
    /\ reader = "PagedReader"
    /\ initialProgress = [sentenceText |-> ""]
    /\ hasScrolledToInitial = FALSE
    /\ restoredTo = "none"
    /\ mounted = TRUE
    /\ lookup = NoLookup
    /\ InitStorage
    /\ InitPopup
    /\ InitReloc
    /\ storage \in [present : BOOLEAN, items : {NoItems}]
    /\ memory = NoItems
    /\ lastSet = [key \in StorageKeys |-> Unset]

KvSpec == InitKvSpec /\ [][NextKv]_vars

\* ---------------------------------------------------------------------------
\* VirtualReader: relocations forwarded to the parent
\* ---------------------------------------------------------------------------

\* variant: every relocation is forwarded
handleRelocatedAlways(chapterIndex, pageIndex, progressData) ==
    /\ currentIndexRef' = chapterIndex
    /\ currentPageRef' = pageIndex
    /\ relocated' = [made |-> TRUE, chapterIndex |-> chapterIndex,
                     pageIndex |-> pageIndex, progressData |-> progressData,
                     before |-> <<currentIndexRef, currentPageRef>>,
                     forwarded |-> TRUE, parent |-> <<chapterIndex, pageIndex>>]
    /\ UNCHANGED <<navVars, gestureVars, initialProgress, hasScrolledToInitial,
                   restoredTo, mounted, lookup, storageVars, popupVars, kvVars>>

\* VirtualReader.handleRelocated(chapterIndex, pageIndex, progressData);
\* relocated records the call, the refs before it and the pair handed to the
\* parent's onRelocated
handleRelocated(chapterIndex, pageIndex, progressData) ==
    /\ IF progressData \/ currentIndexRef # chapterIndex \/ currentPageRef # pageIndex
       THEN /\ currentIndexRef' = chapterIndex
            /\ currentPageRef' = pageIndex
            /\ relocated' = [made |-> TRUE, chapterIndex |-> chapterIndex,
                             pageIndex |-> pageIndex, progressData |-> progressData,
                             before |-> <<currentIndexRef, currentPageRef>>,
                             forwarded |-> TRUE,
                             parent |-> <<chapterIndex, pageIndex>>]
       ELSE /\ UNCHANGED <<currentIndexRef, currentPageRef>>
            /\ relocated' = [relocated EXCEPT
                                !.made = TRUE, !.chapterIndex = chapterIndex,
                                !.pageIndex = pageIndex, !.progressData = progressData,
                                !.before = <<currentIndexRef, currentPageRef>>,
                                !.forwarded = FALSE]
    /\ UNCHANGED <<navVars, gestureVars, initialProgress, hasScrolledToInitial,
                   restoredTo, mounted, lookup, storageVars, popupVars, kvVars>>

NextReloc ==
    \E chapterIndex \in 0..(NumChapters - 1), pageIndex \in RelocPages,
       progressData \in BOOLEAN :
        handleRelocated(chapterIndex, pageIndex, progressData)

RelocSpec == Init /\ [][NextReloc]_vars

\* C1: the current page index lies in [0, totalPages-1] in every reachable
\* state, the -1 sentinel excepted.
PageIndexInRange == currentPage = -1 \/ (0 <= currentPage /\ currentPage <= totalPages - 1)

\* C2: goNext below the last page increases the page by exactly one and
\* keeps the chapter; on the last page of a chapter that has a successor it
\* switches to the next chapter, and once every deferred timer has fired the
\* reader is on page 0 of that chapter.
NextPageSettlesOnPageZero ==
    /\ [][called' = "goNext" =>
            IF currentPage < totalPages - 1
            THEN currentPage' = currentPage + 1 /\ currentSection' = currentSection
            ELSE currentSection < NumChapters - 1 =>
                     currentSection' = currentSection + 1]_vars
    /\ [](lastNav = "next" /\ timers = <<>> => currentPage = 0)

\* C3: goPrev on page 0 of chapter c > 0 switches to chapter c-1, and once
\* every deferred timer has fired the reader is on the last page of that
\* chapter, which is set only when the chapter's pages have been measured.
PrevPageLandsOnLastPage ==
    /\ [][called' = "goPrev" /\ currentPage = 0 /\ currentSection > 0 =>
            currentSection' = currentSection - 1]_vars
    /\ [][lastNav = "prev" /\ lastNav' = "prev" /\ currentPage' # currentPage =>
            isReady]_vars
    /\ [](lastNav = "prev" /\ timers = <<>> => currentPage = totalPages - 1)

\* C4 as stated: a chapter longer than the single-page threshold has
\* ceil(flowExtent / pageStride) pages.
PagesAreCeiling ==
    isReady /\ scrollSize > ViewportSize(Cur) + SinglePageEpsilon /\ PageSize(Cur) > 0
        => totalPages = CeilDiv(scrollSize, PageSize(Cur))

\* C4 amended: a chapter longer than the single-page threshold has
\* max(1, round(flowExtent / pageStride)) pages, halves rounded up; the
\* quotient by a zero stride is infinite and by a negative stride negative.
\* In particular 2500 / 1040 gives 2 pages.
PagesAreRounded ==
    /\ isReady /\ scrollSize > ViewportSize(Cur) + SinglePageEpsilon =>
         LET stride == PageSize(Cur)
         IN  CASE stride > 0 ->
                    \E r \in 0..(scrollSize + 1) :
                        /\ (2 * r - 1) * stride <= 2 * scrollSize
                        /\ 2 * scrollSize < (2 * r + 1) * stride
                        /\ totalPages = (IF r < 1 THEN 1 ELSE r)
               [] stride = 0 -> totalPages = Infinity
               [] stride < 0 -> totalPages = 1
    /\ isReady /\ scrollSize = 2500 /\ PageSize(Cur) = 1040
         => totalPages = 2

PagesAreRoundedWitness ==
    /\ isReady
    /\ scrollSize = 2500
    /\ ViewportSize(Cur) = 1048
    /\ PageSize(Cur) = 1040
    /\ totalPages = 2

\* C5: the computed totalPages is a finite integer >= 1 for every content
\* and every layout a measurement runs for.
TotalPagesFinite == totalPages >= 1 /\ totalPages < Infinity

\* C6: after every recompute trigger the reader eventually becomes ready again.
RecomputeFollowsTrigger == (~isReady) ~> isReady

\* C7: between a chapter switch and the end of the new chapter's pagination
\* recompute no navigation input changes the page or the chapter.
NoNavigationWhileNotReady ==
    [][lastNav # "none" /\ ~isReady /\ called' # "none" =>
          currentPage' = currentPage /\ currentSection' = currentSection]_vars

\* C8: after goToPage(p) the page lies in [0, totalPages-1] and after
\* goToSection(s) the chapter lies in [0, chapterCount-1], for every integer.
ClampLaw ==
    /\ called = "goToPage" =>
         currentPage = (IF request[1] < 0 THEN 0
                        ELSE IF request[1] > totalPages - 1 THEN totalPages - 1
                        ELSE request[1])
    /\ called = "goToSection" =>
         currentSection = (IF request[1] < 0 THEN 0
                           ELSE IF request[1] > NumChapters - 1 THEN NumChapters - 1
                           ELSE request[1])

ClampLawWitness ==
    /\ called = "goToPage"
    /\ request # <<>>
    /\ request[1] > totalPages - 1
    /\ totalPages > 1
    /\ currentPage = totalPages - 1

\* C9: goNext on the last page of the last chapter and goPrev on page 0 of
\* chapter 0 change neither chapter, page nor readiness and emit no relocation.
NavigationSaturates ==
    [][(\/ /\ called' = "goNext"
           /\ currentPage = totalPages - 1
           /\ currentSection = NumChapters - 1
        \/ /\ called' = "goPrev"
           /\ currentPage = 0
           /\ currentSection = 0)
       => /\ UNCHANGED <<currentSection, currentPage, isReady>>
          /\ ~emitted']_vars

NavigationSaturatesWitness ==
    /\ called = "goNext"
    /\ ~emitted
    /\ isReady
    /\ totalPages > 1
    /\ currentPage = totalPages - 1
    /\ currentSection = NumChapters - 1

DragPersistsAndSuppresses ==
    session.phase # "idle" /\ session.far =>
        /\ isDraggingRef
        /\ \A i \in DOMAIN session.log : session.log[i] \notin {"lookup", "toggle"}

\* C12: a session whose end event yields a swipe-navigation result attempts
\* no lookup, also when it never crossed the drag threshold.
SwipeSuppressesLookup ==
    session.swiped => \A i \in DOMAIN session.log : session.log[i] # "lookup"

\* C13: the click of a tap session (no move beyond the threshold, no swipe
\* result) on a non-whitespace character of plain content invokes lookup and
\* no navigation; lookup is enabled and no text is selected.
TapOnTextLooksUp ==
    /\ session.click = "done"
    /\ ~session.far
    /\ ~session.swiped
    /\ session.hit = "char"
    /\ session.target = "content"
    /\ session.enableYomitan
    /\ session.collapsed
    => /\ \E i \in DOMAIN session.log : session.log[i] = "lookup"
       /\ \A i \in DOMAIN session.log : session.log[i] # "navigate"

\* C14: across its touch-end handler and the click event that follows, a
\* session dispatches at most one of navigate, toggle-chrome and lookup;
\* checked for the sessions whose end yields no swipe result.
OneDispatchPerSession == ~session.swiped => Len(session.log) <= 1

\* C15: when the stored sentence text occurs in the target chapter, the
\* restored reader shows a location that holds the sentence, whatever the
\* stored page index and the layout: the page of the sentence in the paged
\* reader, the sentence's node in the continuous reader.
RestoreFindsSentence ==
    LET text == initialProgress.sentenceText
    IN  text # "" /\ SentenceOffset(chapters[initialChapter], text) >= 0 =>
          /\ reader = "PagedReader" /\ isReady /\ hasNavigatedToInitial /\ timers = <<>>
                => currentPage = SentencePage(Cur, text)
          /\ reader = "ContinuousReader" /\ hasScrolledToInitial
                => restoredTo = text

\* C16: progress writes for one book are ordered: once every issued write has
\* completed, in whichever order the writes complete, the stored record is
\* the one of the save issued last.
LastSaveWins ==
    (pending = {} /\ saves # <<>>) => Position(stored) = Position(saves[Len(saves)])

\* the pending page measurements
CalcTimers(tm) == {i \in DOMAIN tm : tm[i].kind = "calc"}

\* C17: pagination recompute is last-request-wins: at most one measurement is
\* pending; when the inputs of the measurement change, the only measurement
\* pending afterwards is the one requested for the new inputs; and totalPages
\* changes only when the pending measurement fires, to the page count of the
\* content and layout of that moment.
LastRequestWins ==
    [][/\ Cardinality(CalcTimers(timers)) <= 1
       /\ Cardinality(CalcTimers(timers')) <= 1
       /\ CalcDeps(Cur)' # CalcDeps(Cur)
          => \A i \in CalcTimers(timers') : timers'[i].rem = CalcDelay
       /\ totalPages' # totalPages
          => /\ Fire("calc")
             /\ totalPages' = CalcPages(scrollSize, ViewportSize(Cur), ColumnWidth(Cur))
      ]_vars

\* a resize arrived while the first measurement was pending, and one
\* measurement, requested by the resize, is pending
LastRequestWinsWitness ==
    /\ inputs = 1
    /\ lastNav = "none"
    /\ settings = InitialSettings
    /\ ~isReady
    /\ ~hasNavigatedToInitial
    /\ Cardinality(CalcTimers(timers)) = 1
    /\ \A i \in CalcTimers(timers) : timers[i].rem = CalcDelay

\* C18: teardown flushes rather than discards: a pending debounced position
\* update leaves the timers only by running handleScroll, which delivers the
\* position; no cleanup of the scroll tracking effect drops it undelivered.
PendingUpdateDelivered ==
    [][(Has(timers, "scroll") /\ ~Has(timers', "scroll")) => ScrollFire]_vars

\* C19: wheel cooldown: a wheel event turns the page only when no cooldown is
\* running, and starts the cooldown; the wheel events of one burst inside the
\* cooldown window turn no further page.
WheelCooldownHolds ==
    [][(inputs' # inputs /\ called' \in {"goNext", "goPrev"})
          => (wheelTimeoutRef = 0 /\ wheelTimeoutRef' = WheelCooldown)]_vars

\* one wheel event has turned from page 0 to page 1, part of the cooldown has
\* passed and no second page was turned
WheelCooldownHoldsWitness ==
    /\ inputs = 1
    /\ currentPage = 1
    /\ wheelTimeoutRef \in 1..(WheelCooldown - 1)

\* C20: a keydown whose target is an editable element (input, textarea or
\* content-editable) invokes no navigation callback; its default is prevented
\* only when a callback was invoked, so it is not prevented either.
KeysIgnoredInEditable ==
    [][inputs' # inputs => called' = "none"]_vars

\* the sentence around totalOffset: from one past the nearest terminator
\* before it, or the block start, to the first terminator at or after it
\* (inclusive), or the block end
SentenceAround(fullText, totalOffset) ==
    Substring(fullText, SentenceStart(fullText, totalOffset),
              SentenceEndFrom(fullText, totalOffset, 0))

\* C21: the sentence returned for a hit contains the hit character, begins
\* right after the nearest terminator before the hit or at the block start,
\* and ends with the first terminator at or after the hit or at the block
\* end; surrounding whitespace is not counted.
SentenceIsDelimited ==
    lookup.done => lookup.sentence = trim(SentenceAround(lookup.text, lookup.offset))

\* the 0-based indices of text at which sentence occurs so that it covers
\* the hit at offset
Origins(text, sentence, offset) ==
    {o \in 0..offset : /\ offset < o + Len(sentence)
                       /\ Substring(text, o, o + Len(sentence)) = sentence}

\* C22: the byte offset returned with the sentence is the UTF-8 length of the
\* part of the returned sentence that precedes the hit character, also when
\* whitespace separates the previous terminator from the sentence.
ByteOffsetPointsAtHit ==
    lookup.done =>
        \E o \in Origins(lookup.text, lookup.sentence, lookup.offset) :
            lookup.byteOffset = Utf8Length(Substring(lookup.text, o, lookup.offset))

\* C23: when the stored sentence is absent or not found in the target
\* chapter, the paged reader is restored to the stored page index of that
\* chapter and the continuous reader, which has no page index, to the chapter
\* start; the restored position is a valid one.
RestoreFallsBack ==
    LET text == initialProgress.sentenceText
    IN  (text = "" \/ SentenceOffset(chapters[initialChapter], text) < 0) =>
          /\ reader = "PagedReader" /\ isReady /\ hasNavigatedToInitial /\ timers = <<>>
                => /\ currentSection = initialChapter
                   /\ initialPage <= totalPages - 1 => currentPage = initialPage
                   /\ 0 <= currentPage /\ currentPage <= totalPages - 1
          /\ reader = "ContinuousReader" /\ hasScrolledToInitial
                => restoredTo = IF initialChapter > 0 THEN "chapter" ELSE "start"

\* C24: every Tap session whose click was handled and that neither
\* swipe-navigated nor started a lookup has invoked the toggle-chrome
\* callback, whatever the tap's target and hit.
TapTogglesChrome ==
    (/\ session.phase = "ended" /\ session.click = "done"
     /\ session.result = "tap" /\ ~session.far /\ ~session.swiped
     /\ \A i \in DOMAIN session.log : session.log[i] # "lookup")
        => \E i \in DOMAIN session.log : session.log[i] = "toggle"

\* C25: goToSection with a target that clamps to the current chapter is a
\* no-op: chapter, page and readiness are unchanged, no deferred scroll is
\* scheduled and no relocation event is emitted.
GoToSameSectionIsNoOp ==
    [][(called' = "goToSection" /\ ClampSection(request'[1]) = currentSection)
          => /\ currentSection' = currentSection
             /\ currentPage' = currentPage
             /\ isReady' = isReady
             /\ ~(~Has(timers, "section") /\ Has(timers', "section"))
             /\ ~emitted']_vars

\* the flow-axis viewport extents a layout can be resized to
FlowViewports(s) == IF IsVertical(s) THEN CalcHeights ELSE CalcWidths

\* C26: for a fixed flow extent, padding and column gap, a larger flow-axis
\* viewport extent never gives a larger totalPages.
PagesMonotoneInViewport ==
    isReady =>
        \A viewport \in FlowViewports(Cur) :
            viewport > ViewportSize(Cur) =>
                CalcPages(scrollSize, viewport, viewport - Padding(Cur) * 2)
                    <= totalPages

\* C27: a move of a handled session that is not yet in Drag sets isDragging
\* exactly when the Euclidean distance from the start point exceeds
\* dragThresholdPx, i.e. iff dx*dx + dy*dy > 100.
DragIffEuclidean ==
    [][(/\ session.phase = "tracking" /\ session.handled
        /\ session'.moves = session.moves + 1
        /\ ~isDraggingRef /\ ~session.far)
          => (isDraggingRef' <=> session'.far)]_vars

\* C28: wheel delta is accumulated. Under WheelSmallSpec every wheel event
\* is forward with a delta at or below the threshold and any two deltas sum
\* above it, so the running sum crosses the threshold at the second event:
\* that event turns the page (goNext) and starts the cooldown.
WheelDeltaAccumulates ==
    [][(inputs = 1 /\ inputs' = 2) =>
          (called' = "goNext" /\ wheelTimeoutRef' = WheelCooldown)]_vars

\* C29 as stated: content whose flow extent is 1 px more than k * pageStride
\* (k >= 1) has k pages.
BoundaryHasKPages ==
    isReady =>
        \A k \in 1..MaxBoundary :
            scrollSize = k * PageSize(Cur) + 1 => totalPages = k

\* C29 amended: content longer than the single-page threshold whose flow
\* extent is k * pageStride - 1, k * pageStride or k * pageStride + 1
\* (k >= 1, pageStride > 2) has k pages: the count at and around a page
\* boundary is fixed by (flowExtent, viewport extent, pageStride).
BoundaryKeepsPageCount ==
    (/\ isReady
     /\ scrollSize > ViewportSize(Cur) + SinglePageEpsilon
     /\ PageSize(Cur) > 2)
        => \A k \in 1..MaxBoundary, d \in {-1, 0, 1} :
               scrollSize = k * PageSize(Cur) + d => totalPages = k

BoundaryKeepsPageCountWitness ==
    /\ isReady
    /\ ViewportSize(Cur) = 1000
    /\ PageSize(Cur) = 960
    /\ scrollSize = 2 * 960 + 1
    /\ totalPages = 2

\* C30: the restoration of a stored initialPage > 0 is not lost: in a step
\* that is not a navigation call, the deferred restoration timer, once
\* scheduled, goes away only by firing, which puts the reader on initialPage
\* of the initial chapter, whatever layout inputs change in between.
RestorationNotLost ==
    [][(/\ initialPage > 0 /\ called' = "none"
        /\ currentSection = initialChapter
        /\ Has(timers, "init") /\ ~Has(timers', "init"))
          => (currentPage' = initialPage /\ currentSection' = initialChapter)]_vars

\* C31: drag state does not leak between sessions or input kinds: a click
\* is suppressed as a drag only if a move of the session that produced it
\* went beyond the drag threshold.
NoDragLeak ==
    [][(/\ session.click = "pending" /\ session'.click = "done"
        /\ isDraggingRef)
          => session.far]_vars

\* C32: the current chapter index lies in [0, chapterCount-1] in every
\* reachable state, the state right after mounting on a stored or
\* table-of-contents chapter index included.
ChapterIndexInRange == 0 <= currentSection /\ currentSection <= NumChapters - 1

\* C33: overlapping lookups resolve to the latest tap: once every lookup has
\* been answered, a popup that shows results shows the results and the
\* highlight of the lookup started last.
LatestLookupWins ==
    (inflight = {} /\ dictPopup.visible /\ ~dictPopup.systemLoading)
        => (dictPopup.results = dictPopup.startChar
            /\ dictPopup.rects = dictPopup.startChar)

\* a sentence text that is not empty and has no surrounding whitespace
IsSentence(text) == text # "" /\ Trim(text) = text

\* C34: every progress record the reader screen writes carries a non-empty
\* trimmed sentenceText, and so does the stored record once one is stored:
\* a relocation without sentence text writes nothing and replaces nothing.
SavedRecordsCarrySentence ==
    /\ \A i \in DOMAIN saves : IsSentence(saves[i].sentenceText)
    /\ stored.lastRead # 0 => IsSentence(stored.sentenceText)

SavedRecordsCarrySentenceWitness ==
    /\ Len(saves) = 2
    /\ saves[1].sentenceText = "s0"
    /\ saves[2].sentenceText = "s1"
    /\ pending = {}
    /\ stored.sentenceText = "s1"

\* C35: read-your-writes: for every key that setItem was called for,
\* getItem returns the string of the last setItem's value, or null after
\* setItem(key, undefined), whether the backend's getItem throws or not.
ReadYourWrites ==
    \A key \in StorageKeys :
        lastSet[key] # Unset =>
            \A throws \in BOOLEAN : getItem(key, throws) = lastSet[key]

\* C36: VirtualReader forwards a relocation iff it carries progress data or
\* its (chapterIndex, pageIndex) differs from the remembered pair, so a
\* repeated relocation without progress data is not forwarded again; and
\* once a relocation has been forwarded the remembered pair is the last
\* forwarded pair.
ForwardsIffNew ==
    /\ relocated.made =>
          (relocated.forwarded <=>
              (relocated.progressData
               \/ <<relocated.chapterIndex, relocated.pageIndex>> # relocated.before))
    /\ relocated.parent # <<>> =>
          <<currentIndexRef, currentPageRef>> = relocated.parent

ForwardsIffNewWitness ==
    /\ relocated.made
    /\ ~relocated.forwarded
    /\ ~relocated.progressData
    /\ relocated.chapterIndex = 1
    /\ relocated.pageIndex = 1
    /\ relocated.parent = <<1, 1>>

\* a navigation callback's result h moves the reader to another page or chapter
ChangesPosition(h) == h.s.sec # currentSection \/ h.s.page # currentPage

\* C37: in every ready state canGoNext is true iff goNext would change the
\* page or the chapter, and canGoPrev is true iff goPrev would.
EnablementMatchesEffect ==
    isReady =>
        /\ canGoNext <=> ChangesPosition(goNext(Idle))
        /\ canGoPrev <=> ChangesPosition(goPrev(Idle))

EnablementMatchesEffectWitness ==
    /\ isReady
    /\ called = "goNext"
    /\ ~canGoNext
    /\ canGoPrev

====
